---------------------------- MODULE Spec2Model ----------------------------
(***************************************************************************)
(* Model of read_image_scope_xml::run (src/src/lib.rs): for every XML file *)
(* of a directory, deserialize the annotation document, walk its layers    *)
(* into the map regions_info (region id -> RegionInfo) and print one row   *)
(* per entry of the map.                                                    *)
(*                                                                          *)
(* Strings the code inspects (header names, attribute values, image paths) *)
(* are sequences of one-character strings, so prefix tests, trimming,      *)
(* number parsing and basename extraction are computed, not assumed.       *)
(* Strings the code only copies or compares for equality (region ids,      *)
(* slot ids, text labels) are TLA+ strings.                                 *)
(***************************************************************************)
EXTENDS Integers, Sequences, FiniteSets, TLC

(***************************************************************************)
(* Bounds of the model.                                                     *)
(***************************************************************************)
MaxLayers == 2
MaxFiles == 2

(***************************************************************************)
(* Option<T>: None is the empty sequence, Some(x) the one-element sequence. *)
(***************************************************************************)
None == <<>>
Some(x) == <<x>>
unwrap_or(o, d) == IF o = None THEN d ELSE o[1]

(***************************************************************************)
(* f32 values: NaN, or a number.  Only values that are small naturals occur *)
(* in the model, so no rounding is involved.                                *)
(***************************************************************************)
NAN == [nan |-> TRUE, v |-> 0]
F32(n) == [nan |-> FALSE, v |-> n]

(***************************************************************************)
(* str::starts_with                                                         *)
(***************************************************************************)
starts_with(s, p) == Len(s) >= Len(p) /\ SubSeq(s, 1, Len(p)) = p

(***************************************************************************)
(* str::trim: drop leading and trailing white space.                        *)
(***************************************************************************)
IsSpace(c) == c \in {" ", "\t"}

RECURSIVE trim_start(_)
trim_start(s) ==
    IF s # <<>> /\ IsSpace(Head(s)) THEN trim_start(Tail(s)) ELSE s

RECURSIVE trim_end(_)
trim_end(s) ==
    IF s # <<>> /\ IsSpace(s[Len(s)]) THEN trim_end(SubSeq(s, 1, Len(s) - 1)) ELSE s

trim(s) == trim_end(trim_start(s))

(***************************************************************************)
(* str::parse::<f32> on the strings of the model's value catalogue: a       *)
(* non-empty string of decimal digits is Ok(its value); the empty string    *)
(* and any string holding another character (a blank, a letter) is Err,     *)
(* here None.                                                               *)
(***************************************************************************)
Digits == {"0", "1", "2", "3", "4", "5", "6", "7", "8", "9"}
DigitVal(c) == CASE c = "0" -> 0 [] c = "1" -> 1 [] c = "2" -> 2 [] c = "3" -> 3
                 [] c = "4" -> 4 [] c = "5" -> 5 [] c = "6" -> 6 [] c = "7" -> 7
                 [] c = "8" -> 8 [] c = "9" -> 9

RECURSIVE DecimalValue(_)
DecimalValue(s) ==
    IF s = <<>> THEN 0
    ELSE 10 * DecimalValue(SubSeq(s, 1, Len(s) - 1)) + DigitVal(s[Len(s)])

parse_f32(s) ==
    IF s # <<>> /\ \A i \in DOMAIN s : s[i] \in Digits
    THEN Some(F32(DecimalValue(s)))
    ELSE None

(***************************************************************************)
(* The value stored for a matched attribute:                                *)
(*   Some(attrib.value.trim().parse::<f32>().unwrap_or(std::f32::NAN))      *)
(***************************************************************************)
ParseFieldOk(value) == parse_f32(trim(value))

ParseField(value) == Some(unwrap_or(parse_f32(trim(value)), NAN))

(***************************************************************************)
(* path::Path::new(s).file_name() on a Unix path: the last component, None  *)
(* when there is none or when it is "..".  Empty components and "." are     *)
(* dropped by the path's normalisation.                                     *)
(***************************************************************************)
RECURSIVE Components(_, _)
Components(s, cur) ==
    IF s = <<>>
    THEN IF cur = <<>> \/ cur = <<".">> THEN <<>> ELSE <<cur>>
    ELSE IF Head(s) = "/"
         THEN (IF cur = <<>> \/ cur = <<".">> THEN <<>> ELSE <<cur>>)
              \o Components(Tail(s), <<>>)
         ELSE Components(Tail(s), Append(cur, Head(s)))

file_name(s) ==
    LET comps == Components(s, <<>>) IN
    IF comps = <<>> \/ comps[Len(comps)] = <<".", ".">>
    THEN None
    ELSE Some(comps[Len(comps)])


(***************************************************************************)
(* struct RegionInfo and its methods.                                       *)
(***************************************************************************)
RegionInfo_new ==
    [text_label |-> None, image_location |-> None, num_positive |-> None,
     num_total |-> None, positivity |-> None]

set_text_label(info, text_label) == [info EXCEPT !.text_label = text_label]

set_image_location(info, image_location) ==
    [info EXCEPT !.image_location = image_location]

set_positivity_keep_first(info, positivity) ==
    IF info.positivity = None THEN [info EXCEPT !.positivity = positivity] ELSE info

set_positivity(info, positivity) == [info EXCEPT !.positivity = positivity]

set_num_positive(info, num_pos) == [info EXCEPT !.num_positive = num_pos]

set_num_total(info, num_total) == [info EXCEPT !.num_total = num_total]

(***************************************************************************)
(* HashMap::entry(key).or_insert(RegionInfo::new()): the map with an entry  *)
(* for key, created empty when it is missing.                               *)
(***************************************************************************)
entry_or_insert(map, key) ==
    IF key \in DOMAIN map THEN map ELSE map @@ (key :> RegionInfo_new)

(***************************************************************************)
(* The three header-name prefixes run looks for in a type-3 layer.          *)
(***************************************************************************)
PositivityPrefix == <<"P", "o", "s", "i", "t", "i", "v", "i", "t", "y", " ", "=">>

NumPositivePrefixOneSpace == <<"N", "p", " ", "=">>

NumPositivePrefix == <<"N", "p", " ", " ", "=">>

NumTotalPrefix == <<"N", "T", "o", "t", "a", "l", " ", "=">>

(***************************************************************************)
(* attribute_header.iter().find(|a| a.name.starts_with(prefix)): the first  *)
(* header whose name starts with the prefix.                                *)
(***************************************************************************)
find_header(attribute_header, prefix) ==
    LET hit(i) == starts_with(attribute_header[i].name, prefix) IN
    IF \E i \in DOMAIN attribute_header : hit(i)
    THEN Some(attribute_header[CHOOSE i \in DOMAIN attribute_header :
                  hit(i) /\ \A j \in 1..(i - 1) : ~hit(j)])
    ELSE None

positivity_attrib(attribute_header) == find_header(attribute_header, PositivityPrefix)
num_positive_attrib(attribute_header) == find_header(attribute_header, NumPositivePrefix)
num_total_attrib(attribute_header) == find_header(attribute_header, NumTotalPrefix)

(***************************************************************************)
(* The message of the first failing is_none() check of a type-3 layer, or   *)
(* None when the three required headers are all found.                      *)
(***************************************************************************)
MissingSlot(attribute_header) ==
    IF positivity_attrib(attribute_header) = None THEN Some("Missing positivity")
    ELSE IF num_positive_attrib(attribute_header) = None THEN Some("Missing number positive")
    ELSE IF num_total_attrib(attribute_header) = None THEN Some("Missing number total")
    ELSE None

(***************************************************************************)
(* The slot identifiers of a layer that passed the three checks.            *)
(***************************************************************************)
SlotNames(attribute_header) ==
    [positivity_name |-> positivity_attrib(attribute_header)[1].id,
     num_positive_name |-> num_positive_attrib(attribute_header)[1].id,
     num_total_name |-> num_total_attrib(attribute_header)[1].id]

(***************************************************************************)
(* One attribute of a region: three independent tests of its name against   *)
(* the resolved slot identifiers, each storing the parsed value.            *)
(***************************************************************************)
ApplyAttrib(map, key, attrib, names) ==
    LET m1 == IF attrib.name = names.positivity_name
              THEN LET m == entry_or_insert(map, key) IN
                   [m EXCEPT ![key] = set_positivity(m[key], ParseField(attrib.value))]
              ELSE map
        m2 == IF attrib.name = names.num_positive_name
              THEN LET m == entry_or_insert(m1, key) IN
                   [m EXCEPT ![key] = set_num_positive(m[key], ParseField(attrib.value))]
              ELSE m1
    IN  IF attrib.name = names.num_total_name
        THEN LET m == entry_or_insert(m2, key) IN
             [m EXCEPT ![key] = set_num_total(m[key], ParseField(attrib.value))]
        ELSE m2

(***************************************************************************)
(* for attrib in region_attrib { ... }                                      *)
(***************************************************************************)
RECURSIVE ApplyAttribsAbortOnError(_, _, _, _)
ApplyAttribsAbortOnError(map, key, region_attrib, names) ==
    IF region_attrib = <<>> THEN map
    ELSE IF Head(region_attrib).name \in
              {names.positivity_name, names.num_positive_name, names.num_total_name}
            /\ parse_f32(trim(Head(region_attrib).value)) = None
         THEN map
         ELSE ApplyAttribsAbortOnError(ApplyAttrib(map, key, Head(region_attrib), names),
                                       key, Tail(region_attrib), names)

RECURSIVE ApplyAttribs(_, _, _, _)
ApplyAttribs(map, key, region_attrib, names) ==
    IF region_attrib = <<>> THEN map
    ELSE ApplyAttribs(ApplyAttrib(map, key, Head(region_attrib), names),
                      key, Tail(region_attrib), names)

(***************************************************************************)
(* One region of a valid type-3 layer: the image location's file name,      *)
(* then the attributes.  The key is the region's own id.                    *)
(***************************************************************************)
ApplyRegion3EagerEntry(map, r, names) ==
    LET loc == file_name(unwrap_or(r.image_location, <<>>))
        m0 == entry_or_insert(map, r.id)
        m1 == IF loc # None
              THEN [m0 EXCEPT ![r.id] = set_image_location(m0[r.id], Some(loc[1]))]
              ELSE m0
    IN  IF r.attributes # None
        THEN ApplyAttribs(m1, r.id, r.attributes[1], names)
        ELSE m1

ApplyRegion3(map, r, names) ==
    LET loc == file_name(unwrap_or(r.image_location, <<>>))
        m1 == IF loc # None
              THEN LET m == entry_or_insert(map, r.id) IN
                   [m EXCEPT ![r.id] = set_image_location(m[r.id], Some(loc[1]))]
              ELSE map
    IN  IF r.attributes # None
        THEN ApplyAttribs(m1, r.id, r.attributes[1], names)
        ELSE m1

RECURSIVE ApplyRegions3(_, _, _)
ApplyRegions3(map, region, names) ==
    IF region = <<>> THEN map
    ELSE ApplyRegions3(ApplyRegion3(map, Head(region), names), Tail(region), names)

(***************************************************************************)
(* The regions of a type-4 layer: store each region's text as the label.    *)
(***************************************************************************)
RECURSIVE ApplyRegions4(_, _)
ApplyRegions4(map, region) ==
    IF region = <<>> THEN map
    ELSE LET r == Head(region)
             m == entry_or_insert(map, r.id)
         IN  ApplyRegions4([m EXCEPT ![r.id] = set_text_label(m[r.id], Some(r.text))],
                           Tail(region))

(***************************************************************************)
(* The row println! writes for one entry of regions_info.  The numbers are  *)
(* kept as f32 values: "{}" prints NaN as NaN and distinct numbers as       *)
(* distinct texts.                                                          *)
(***************************************************************************)
Row(file, key, info) ==
    [filename |-> file,
     slide_name |-> unwrap_or(info.image_location, <<>>),
     region_id |-> key,
     text_label |-> unwrap_or(info.text_label, ""),
     positivity |-> unwrap_or(info.positivity, NAN),
     num_positive |-> unwrap_or(info.num_positive, NAN),
     num_total |-> unwrap_or(info.num_total, NAN)]


(***************************************************************************)
(* The input catalogue: the XML contents a file of the directory may hold.  *)
(* Only the fields run reads are kept, and InputRegionId, which the XML     *)
(* carries and the Region struct does not declare.                          *)
(***************************************************************************)
RegionIds == {"1", "2"}

AttributeHeader(id, name) == [id |-> id, name |-> name]

NamePositivity == <<"P", "o", "s", "i", "t", "i", "v", "i", "t", "y", " ", "=", " ", "N">>
NameNwp == <<"N", "w", "p", " ", "=", " ", "w">>
NameNp == <<"N", "p", " ", " ", "=", " ", "p">>
NameNpOneSpace == <<"N", "p", " ", "=", " ", "p">>
NameNsp == <<"N", "s", "p", " ", "=", " ", "s">>
NameNTotal == <<"N", "T", "o", "t", "a", "l", " ", "=", " ", "t">>

HdrFive ==
    <<AttributeHeader("A", NamePositivity), AttributeHeader("B", NameNwp),
      AttributeHeader("C", NameNp), AttributeHeader("D", NameNsp),
      AttributeHeader("E", NameNTotal)>>
HdrRemap ==
    <<AttributeHeader("C", NamePositivity), AttributeHeader("B", NameNwp),
      AttributeHeader("A", NameNp), AttributeHeader("D", NameNsp),
      AttributeHeader("E", NameNTotal)>>
HdrNoNsp ==
    <<AttributeHeader("A", NamePositivity), AttributeHeader("B", NameNwp),
      AttributeHeader("C", NameNp), AttributeHeader("E", NameNTotal)>>
HdrNoNp ==
    <<AttributeHeader("A", NamePositivity), AttributeHeader("B", NameNwp),
      AttributeHeader("C", NameNpOneSpace), AttributeHeader("D", NameNsp),
      AttributeHeader("E", NameNTotal)>>
HdrNoPositivity ==
    <<AttributeHeader("B", NameNwp), AttributeHeader("C", NameNp),
      AttributeHeader("D", NameNsp), AttributeHeader("E", NameNTotal)>>
HdrNoTotal ==
    <<AttributeHeader("A", NamePositivity), AttributeHeader("B", NameNwp),
      AttributeHeader("C", NameNp), AttributeHeader("D", NameNsp)>>

RegionAttribute(name, value) == [name |-> name, value |-> value]

AttrsFull ==
    <<RegionAttribute("A", <<"4", "2">>), RegionAttribute("C", <<" ", "7", " ">>),
      RegionAttribute("E", <<"9">>)>>
AttrsBadFirst ==
    <<RegionAttribute("A", <<"x">>), RegionAttribute("C", <<"9">>)>>
AttrsOther ==
    <<RegionAttribute("C", <<"4", "2">>), RegionAttribute("A", <<"7">>)>>
AttrsUnmatched == <<RegionAttribute("Z", <<"9">>)>>

LocPath == <<"d", "/", "s", ".", "s", "v", "s">>

XmlRegion(id, text, loc, inp, attrs) ==
    [id |-> id, text |-> text, image_location |-> loc, input_region_id |-> inp,
     attributes |-> attrs]

RegionLists4 ==
    {<<XmlRegion("1", "Tumor", None, None, None)>>,
     <<XmlRegion("2", "Stroma", None, None, None)>>,
     <<XmlRegion("1", "Stroma", None, None, None),
       XmlRegion("2", "Tumor", None, None, None)>>}

RegionsFull == <<XmlRegion("1", "", Some(LocPath), None, Some(AttrsFull))>>
RegionsBackRef == <<XmlRegion("2", "", None, Some("1"), Some(AttrsFull))>>
RegionsBadFirst == <<XmlRegion("1", "", Some(LocPath), Some("1"), Some(AttrsBadFirst))>>
RegionsOther == <<XmlRegion("1", "", None, None, Some(AttrsOther))>>
RegionsUnmatched == <<XmlRegion("2", "", Some(<<>>), None, Some(AttrsUnmatched))>>
RegionsBare == <<XmlRegion("2", "", None, None, None)>>
RegionsTwo ==
    <<XmlRegion("1", "", Some(LocPath), None, Some(AttrsFull)),
      XmlRegion("2", "", None, Some("1"), Some(AttrsOther))>>
RegionsSameId ==
    <<XmlRegion("1", "", None, None, Some(AttrsFull)),
      XmlRegion("1", "", Some(LocPath), None, Some(AttrsBadFirst))>>

RegionLists3 ==
    {RegionsFull, RegionsBackRef, RegionsBadFirst, RegionsOther, RegionsUnmatched,
     RegionsBare, RegionsTwo, RegionsSameId}

XmlLayer(type, headers, region) ==
    [annotation_type |-> type, attribute_header |-> headers, region |-> region]

XmlLayers ==
    {XmlLayer("4", None, rs) : rs \in RegionLists4}
    \cup {XmlLayer("3", Some(HdrFive), rs) : rs \in RegionLists3}
    \cup {XmlLayer("3", Some(HdrRemap), rs) :
            rs \in {RegionsFull, RegionsOther, RegionsBadFirst, RegionsSameId}}
    \cup {XmlLayer("3", Some(HdrNoNsp), rs) :
            rs \in {RegionsFull, RegionsBadFirst, RegionsBackRef}}
    \cup {XmlLayer("3", hs, RegionsFull) :
            hs \in {None, Some(HdrNoNp), Some(HdrNoPositivity), Some(HdrNoTotal)}}
    \cup {XmlLayer("3", None, RegionsTwo)}
    \cup {XmlLayer("1", None, <<XmlRegion("1", "Tumor", None, None, None)>>)}

XmlRoots == UNION {[1..n -> XmlLayers] : n \in 1..MaxLayers}

FileContents ==
    {[kind |-> "unreadable", root |-> <<>>], [kind |-> "malformed", root |-> <<>>]}
    \cup {[kind |-> "xml", root |-> root] : root \in XmlRoots}

(***************************************************************************)
(* quick_xml::de::from_str into Annotations: Err (None) for the empty text  *)
(* an unreadable file is replaced by and for text that is not a document;   *)
(* otherwise the document, each Region holding the declared fields only.    *)
(***************************************************************************)
DeRegion(x) ==
    [id |-> x.id, text |-> x.text, image_location |-> x.image_location,
     attributes |-> x.attributes]

from_str(content) ==
    IF content.kind # "xml" THEN None
    ELSE Some([i \in DOMAIN content.root |->
                 [annotation_type |-> content.root[i].annotation_type,
                  attribute_header |-> content.root[i].attribute_header,
                  region |-> [j \in DOMAIN content.root[i].region |->
                                 DeRegion(content.root[i].region[j])]]])

(***************************************************************************)
(* State.                                                                   *)
(*   nFiles        number of XML files read_dir yields                      *)
(*   fi            index of the file of the current loop iteration          *)
(*   pc            position in run: "parse", "layers", "report", "exit",    *)
(*                 or "panic" (the process has aborted)                     *)
(*   xml           content of the current file                              *)
(*   annotations   the deserialized document of the current file            *)
(*   li            index of the next layer of the layer loop                *)
(*   regions_info  the HashMap of the current file                          *)
(*   stdout        the rows printed for the current file                    *)
(*   stderr        the messages printed for the current file                *)
(*   reported      the files whose rows have all been printed               *)
(***************************************************************************)
VARIABLES nFiles, fi, pc, xml, annotations, li, regions_info, stdout, stderr, reported

vars == <<nFiles, fi, pc, xml, annotations, li, regions_info, stdout, stderr, reported>>

EmptyMap == [k \in {} |-> RegionInfo_new]
NoContent == [kind |-> "unreadable", root |-> <<>>]

Init ==
    /\ nFiles \in 0..MaxFiles
    /\ fi = 1
    /\ pc = IF nFiles = 0 THEN "exit" ELSE "parse"
    /\ xml = NoContent
    /\ annotations = <<>>
    /\ li = 1
    /\ regions_info = EmptyMap
    /\ stdout = <<>>
    /\ stderr = <<>>
    /\ reported = {}

(***************************************************************************)
(* parse_xml returns: the map, the layer loop and the output of the file    *)
(* start empty.                                                             *)
(***************************************************************************)
ParseXmlOk ==
    /\ pc = "parse"
    /\ \E content \in FileContents :
          /\ from_str(content) # None
          /\ xml' = content
          /\ annotations' = from_str(content)[1]
    /\ li' = 1
    /\ regions_info' = EmptyMap
    /\ stdout' = <<>>
    /\ stderr' = <<>>
    /\ pc' = "layers"
    /\ UNCHANGED <<nFiles, fi, reported>>

(***************************************************************************)
(* parse_xml panics in expect("Error reading XML"): the process aborts.     *)
(***************************************************************************)
ParseXmlPanic ==
    /\ pc = "parse"
    /\ \E content \in FileContents :
          /\ from_str(content) = None
          /\ xml' = content
    /\ pc' = "panic"
    /\ UNCHANGED <<nFiles, fi, annotations, li, regions_info, stdout, stderr, reported>>

InLayers == pc = "layers" /\ li \in DOMAIN annotations
layer == annotations[li]

NextLayerBreak == li' = Len(annotations) + 1 /\ pc' = "report"

NextLayer ==
    /\ li' = li + 1
    /\ pc' = IF li = Len(annotations) THEN "report" ELSE "layers"

Layer4 ==
    /\ InLayers
    /\ layer.annotation_type = "4"
    /\ regions_info' = ApplyRegions4(regions_info, layer.region)
    /\ NextLayer
    /\ UNCHANGED <<nFiles, fi, xml, annotations, stdout, stderr, reported>>

Layer3 ==
    /\ InLayers
    /\ layer.annotation_type = "3"
    /\ layer.attribute_header # None
    /\ MissingSlot(layer.attribute_header[1]) = None
    /\ regions_info' = ApplyRegions3(regions_info, layer.region,
                                     SlotNames(layer.attribute_header[1]))
    /\ NextLayer
    /\ UNCHANGED <<nFiles, fi, xml, annotations, stdout, stderr, reported>>

Layer3MissingSlot ==
    /\ InLayers
    /\ layer.annotation_type = "3"
    /\ layer.attribute_header # None
    /\ MissingSlot(layer.attribute_header[1]) # None
    /\ stderr' = Append(stderr, MissingSlot(layer.attribute_header[1])[1])
    /\ NextLayer
    /\ UNCHANGED <<nFiles, fi, xml, annotations, regions_info, stdout, reported>>

Layer3MissingHeaderBreak ==
    /\ InLayers
    /\ layer.annotation_type = "3"
    /\ layer.attribute_header = None
    /\ stderr' = Append(stderr, "Type 3 annotation layer is missing Region Attribute header")
    /\ NextLayerBreak
    /\ UNCHANGED <<nFiles, fi, xml, annotations, regions_info, stdout, reported>>

Layer3MissingHeader ==
    /\ InLayers
    /\ layer.annotation_type = "3"
    /\ layer.attribute_header = None
    /\ stderr' = Append(stderr, "Type 3 annotation layer is missing Region Attribute header")
    /\ NextLayer
    /\ UNCHANGED <<nFiles, fi, xml, annotations, regions_info, stdout, reported>>

LayerIgnored ==
    /\ InLayers
    /\ layer.annotation_type \notin {"3", "4"}
    /\ NextLayer
    /\ UNCHANGED <<nFiles, fi, xml, annotations, regions_info, stdout, stderr, reported>>

(***************************************************************************)
(* for r in &regions_info { println!(...) }: a HashMap yields its entries   *)
(* in an order that differs from one map to the next, so the next row is    *)
(* any entry not printed yet.                                               *)
(***************************************************************************)
Printed == {stdout[i].region_id : i \in DOMAIN stdout}
Remaining == DOMAIN regions_info \ Printed

ReportRow ==
    /\ pc = "report"
    /\ \E key \in Remaining :
          stdout' = Append(stdout, Row(fi, key, regions_info[key]))
    /\ UNCHANGED <<nFiles, fi, pc, xml, annotations, li, regions_info, stderr, reported>>

(***************************************************************************)
(* The end of one iteration of the file loop, and of run after the last:    *)
(* the document and the map of the file are dropped.  The rows of a         *)
(* finished file stay on the real standard output; they carry the file's    *)
(* name and no later step reads them, so the model keeps only the file's    *)
(* index in reported.                                                       *)
(***************************************************************************)
NextFile ==
    /\ pc = "report"
    /\ Remaining = {}
    /\ reported' = reported \cup {fi}
    /\ fi' = fi + 1
    /\ pc' = IF fi = nFiles THEN "exit" ELSE "parse"
    /\ xml' = NoContent
    /\ annotations' = <<>>
    /\ li' = 1
    /\ regions_info' = EmptyMap
    /\ stdout' = <<>>
    /\ stderr' = <<>>
    /\ UNCHANGED nFiles

Next ==
    \/ ParseXmlOk
    \/ ParseXmlPanic
    \/ Layer4
    \/ Layer3
    \/ Layer3MissingSlot
    \/ Layer3MissingHeader
    \/ LayerIgnored
    \/ ReportRow
    \/ NextFile

Spec == Init /\ [][Next]_vars


(***************************************************************************)
(* Vocabulary of the properties.                                            *)
(***************************************************************************)
RowsDone == pc = "report" /\ Remaining = {}
RowsOf(key) == {i \in DOMAIN stdout : stdout[i].region_id = key}
TheRow(key) == stdout[CHOOSE i \in DOMAIN stdout : stdout[i].region_id = key]

NumericFields == {"positivity", "num_positive", "num_total"}
AllFields == NumericFields \cup {"text_label", "image_location"}

\* The header names the specification requires of a type-3 layer.
ReqPositivity == <<"P", "o", "s", "i", "t", "i", "v", "i", "t", "y", " ", "=">>
ReqNwp == <<"N", "w", "p", " ", "=">>
ReqNp == <<"N", "p", " ", " ", "=">>
ReqNsp == <<"N", "s", "p", " ", "=">>
ReqNTotal == <<"N", "T", "o", "t", "a", "l", " ", "=">>
ReqFive == {ReqPositivity, ReqNwp, ReqNp, ReqNsp, ReqNTotal}
ReqThree == {ReqPositivity, ReqNp, ReqNTotal}

HasPrefix(name, p) == Len(name) >= Len(p) /\ \A i \in 1..Len(p) : name[i] = p[i]
Lacks(headers, p) == \A i \in DOMAIN headers : ~HasPrefix(headers[i].name, p)
HasAll(l, req) == l.attribute_header # None /\ \A p \in req : ~Lacks(l.attribute_header[1], p)
LacksOne(l, req) == l.attribute_header # None /\ \E p \in req : Lacks(l.attribute_header[1], p)

\* The slot identifier a header list gives to a required name: the id of the
\* first header carrying the prefix.
SlotOf(headers, p) ==
    headers[CHOOSE i \in DOMAIN headers :
               HasPrefix(headers[i].name, p)
               /\ \A j \in 1..(i - 1) : ~HasPrefix(headers[j].name, p)].id

FieldPrefix(f) ==
    CASE f = "positivity" -> ReqPositivity
      [] f = "num_positive" -> ReqNp
      [] f = "num_total" -> ReqNTotal

\* The positions <<layer, region>> of the regions of the current file's
\* layers of one type.
RegionsAt(type) ==
    {ij \in (DOMAIN xml.root) \X (1..2) :
        /\ xml.root[ij[1]].annotation_type = type
        /\ ij[2] \in DOMAIN xml.root[ij[1]].region}
XmlRegionAt(ij) == xml.root[ij[1]].region[ij[2]]

\* The ids of the type-4 regions of the current file, and the ids the type-3
\* regions of the file refer back to.
Type4Ids == {XmlRegionAt(ij).id : ij \in RegionsAt("4")}
BackRefs == {XmlRegionAt(ij).input_region_id : ij \in RegionsAt("3")}

\* The values the attributes of region r carry for field f under the header
\* list of layer l, as numbers (NaN when the text is no number).
Number(value) ==
    LET t == trim(value) IN
    IF t # <<>> /\ \A i \in DOMAIN t : t[i] \in Digits THEN F32(DecimalValue(t)) ELSE NAN
ValuesOf(l, r, f) ==
    IF r.attributes = None THEN {}
    ELSE {Number(r.attributes[1][n].value) :
            n \in {m \in DOMAIN r.attributes[1] :
                     r.attributes[1][m].name = SlotOf(l.attribute_header[1], FieldPrefix(f))}}

(***************************************************************************)
(* C1: when a type-3 region of a layer with the five required headers       *)
(* carries a back-reference equal to the id of a type-4 region of the same  *)
(* document, its statistics are stored under the back-reference: the        *)
(* output has exactly one row for that id, holding the type-4 label and     *)
(* the statistics, and no row keyed by the type-3 region's own id (when     *)
(* nothing else of the document uses that id).                              *)
(***************************************************************************)
C1_StoredUnderBackReference ==
    RowsDone =>
      \A ij \in RegionsAt("3") :
        LET l == xml.root[ij[1]]
            r == XmlRegionAt(ij)
        IN  ( /\ HasAll(l, ReqFive)
              /\ r.input_region_id # None
              /\ r.input_region_id[1] \in Type4Ids
              /\ r.id # r.input_region_id[1]
              /\ \E f \in NumericFields : ValuesOf(l, r, f) # {} )
            => /\ Cardinality(RowsOf(r.input_region_id[1])) = 1
               /\ TheRow(r.input_region_id[1]).text_label # ""
               /\ \A f \in NumericFields :
                     ValuesOf(l, r, f) # {} =>
                        TheRow(r.input_region_id[1])[f] \in
                           UNION {ValuesOf(xml.root[k[1]], XmlRegionAt(k), f) :
                                    k \in {k2 \in RegionsAt("3") :
                                             /\ HasAll(xml.root[k2[1]], ReqFive)
                                             /\ XmlRegionAt(k2).input_region_id
                                                  = r.input_region_id}}
               /\ (r.id \notin Type4Ids /\ Some(r.id) \notin BackRefs) => RowsOf(r.id) = {}


\* A step of the layer loop that sets no numeric field of any record.
NumericUnchanged ==
    \A k \in DOMAIN regions_info' : \A f \in NumericFields :
       regions_info'[k][f] = IF k \in DOMAIN regions_info THEN regions_info[k][f] ELSE None

C3_BatchContinues == pc \in {"exit", "panic"} => reported = 1..nFiles

(***************************************************************************)
(* C4: every emitted row carries a total-positive count, equal to the weak  *)
(* + positive + strong positive counts of the region with every unset       *)
(* component counted as zero, and never NaN.                                *)
(***************************************************************************)
C4_TotalPositiveCount ==
    \A i \in DOMAIN stdout :
       LET row == stdout[i]
           info == regions_info[row.region_id]
           Zero(f) == IF f \in DOMAIN info /\ info[f] # None /\ ~info[f][1].nan
                      THEN info[f][1].v ELSE 0
       IN  /\ "num_all_positive" \in DOMAIN row
           /\ row.num_all_positive =
                 F32(Zero("num_weak_positive") + Zero("num_positive")
                     + Zero("num_strong_positive"))

(***************************************************************************)
(* C5: the rows of a file are emitted in the order of their region ids, so  *)
(* that two runs on the same bytes print the same text.                     *)
(***************************************************************************)
IdRank(id) == CHOOSE n \in 1..2 : <<"1", "2">>[n] = id
C5_RowsSortedById ==
    \A i, j \in DOMAIN stdout :
       i < j => IdRank(stdout[i].region_id) < IdRank(stdout[j].region_id)

(***************************************************************************)
(* C6: a type-4 region whose id no type-3 region refers back to yields      *)
(* exactly one row, with its label, positivity NaN and every count 0.       *)
(***************************************************************************)
C6_UnreferencedType4Row ==
    RowsDone =>
      \A t \in Type4Ids :
         Some(t) \notin BackRefs =>
            /\ Cardinality(RowsOf(t)) = 1
            /\ TheRow(t).text_label \in
                  {XmlRegionAt(ij).text : ij \in {k \in RegionsAt("4") : XmlRegionAt(k).id = t}}
            /\ TheRow(t).positivity = NAN
            /\ TheRow(t).num_positive = F32(0)
            /\ TheRow(t).num_total = F32(0)


\* The type-3 layers of the current document that run processes: those with
\* the three headers it requires (the layers with all five are among them).
ValidLayers3 ==
    {i \in DOMAIN annotations :
        annotations[i].annotation_type = "3" /\ HasAll(annotations[i], ReqThree)}

\* The writes of layer i to field f of key k, as positions <<region,
\* attribute>>, and the value of the last of them in document order.
Writes(i, k, f) ==
    {w \in (DOMAIN annotations[i].region) \X (1..3) :
        LET r == annotations[i].region[w[1]] IN
        /\ r.id = k
        /\ r.attributes # None
        /\ w[2] \in DOMAIN r.attributes[1]
        /\ r.attributes[1][w[2]].name
             = SlotOf(annotations[i].attribute_header[1], FieldPrefix(f))}
LastWritten(i, k, f) ==
    LET W == Writes(i, k, f)
        w == CHOOSE x \in W :
               \A y \in W : y[1] < x[1] \/ (y[1] = x[1] /\ y[2] <= x[2])
    IN  Number(annotations[i].region[w[1]].attributes[1][w[2]].value)

\* The regions of layer i with id k and an image location that has a file
\* name, and the file name of the last of them.
Located(i, k) ==
    {j \in DOMAIN annotations[i].region :
        LET r == annotations[i].region[j] IN
        r.id = k /\ r.image_location # None /\ file_name(r.image_location[1]) # None}
LastLocated(i, k) ==
    LET j == CHOOSE x \in Located(i, k) : \A y \in Located(i, k) : y <= x
    IN  file_name(annotations[i].region[j].image_location[1])[1]

LastOf(S) == CHOOSE x \in S : \A y \in S : y <= x

(***************************************************************************)
(* C7: when two (or more) processed type-3 layers of a document set the     *)
(* same field of the same key, the emitted row holds the value written by   *)
(* the layer that comes last in the document.  The key is the one the       *)
(* layers write under.                                                      *)
(***************************************************************************)
C7_LaterLayerWins ==
    RowsDone =>
      \A k \in RegionIds :
         /\ \A f \in NumericFields :
               LET S == {i \in ValidLayers3 : Writes(i, k, f) # {}} IN
               Cardinality(S) >= 2 => TheRow(k)[f] = LastWritten(LastOf(S), k, f)
         /\ LET S == {i \in ValidLayers3 : Located(i, k) # {}} IN
            Cardinality(S) >= 2 => TheRow(k).slide_name = LastLocated(LastOf(S), k)

\* Two processed layers wrote different values to the same field of a key
\* and the rows are out.
C7_Witness ==
    /\ RowsDone
    /\ \E k \in RegionIds : \E f \in NumericFields :
          /\ {1, 2} \subseteq ValidLayers3
          /\ Writes(1, k, f) # {} /\ Writes(2, k, f) # {}
          /\ LastWritten(1, k, f) # LastWritten(2, k, f)

(***************************************************************************)
(* C8: a type-3 layer without an attribute header list is skipped: the step *)
(* leaves the map as it is (no record created, no field changed, the image  *)
(* filename included) and the layer loop goes on with the next layer.       *)
(***************************************************************************)
C8_HeaderlessLayerSkipped ==
    [][ (InLayers /\ layer.annotation_type = "3" /\ layer.attribute_header = None)
        => /\ regions_info' = regions_info
           /\ annotations' = annotations
           /\ li' = li + 1
           /\ pc' = IF li < Len(annotations) THEN "layers" ELSE "report" ]_vars

\* A headerless type-3 layer whose region has a location and attributes was
\* passed, and the layer after it has created a record.
C8_Witness ==
    /\ pc = "report"
    /\ Len(annotations) = 2
    /\ annotations[1].annotation_type = "3"
    /\ annotations[1].attribute_header = None
    /\ annotations[1].region[1].attributes # None
    /\ annotations[1].region[1].image_location # None
    /\ annotations[2].annotation_type \in {"3", "4"}
    /\ regions_info # EmptyMap

C10_NeverRemovedNeverUnset ==
    [][ (pc \in {"layers", "report"} /\ pc' \in {"layers", "report"})
        => \A k \in DOMAIN regions_info :
              /\ k \in DOMAIN regions_info'
              /\ \A f \in AllFields :
                    regions_info[k][f] # None => regions_info'[k][f] # None ]_vars

\* The second layer has overwritten a number the first layer stored with the
\* NaN of a value that is no number: the field is still set.
C10_Witness ==
    /\ pc = "report"
    /\ {1, 2} \subseteq ValidLayers3
    /\ \E k \in DOMAIN regions_info : \E f \in NumericFields :
          /\ Writes(1, k, f) # {} /\ LastWritten(1, k, f) # NAN
          /\ Writes(2, k, f) # {} /\ LastWritten(2, k, f) = NAN
          /\ regions_info[k][f] = Some(NAN)


\* Region j of layer i of the current document gives rise to a record: a
\* region of a type-4 layer always, a region of a processed type-3 layer when
\* its image location has a file name or one of its attributes is named by a
\* resolved slot identifier.
Creates(i, j) ==
    LET l == annotations[i]
        r == l.region[j]
    IN  \/ l.annotation_type = "4"
        \/ /\ i \in ValidLayers3
           /\ \/ j \in Located(i, r.id)
              \/ \E f \in NumericFields : \E w \in Writes(i, r.id, f) : w[1] = j

\* The regions of the layers the layer loop has passed.
Passed ==
    {ij \in (1..(li - 1)) \X (1..2) :
        ij[1] \in DOMAIN annotations /\ ij[2] \in DOMAIN annotations[ij[1]].region}

(***************************************************************************)
(* C11: a region of a processed type-3 layer that has no image file name    *)
(* (location absent or empty) and no attribute named by a resolved slot     *)
(* identifier creates no record: its key is in the map, and later in the    *)
(* output, only when another region of the document gives rise to it.       *)
(***************************************************************************)
C11_BareRegionCreatesNoRecord ==
    pc \in {"layers", "report"} =>
      \A ij \in Passed :
         (ij[1] \in ValidLayers3 /\ ~Creates(ij[1], ij[2])) =>
            LET k == annotations[ij[1]].region[ij[2]].id
                other == \E o \in Passed :
                            /\ o # ij
                            /\ annotations[o[1]].region[o[2]].id = k
                            /\ Creates(o[1], o[2])
            IN  /\ k \in DOMAIN regions_info => other
                /\ RowsOf(k) # {} => other

\* The report of a document is complete: its first layer gave a row, its
\* second, processed, layer holds one region with an empty location and an
\* attribute no slot names, and that region's id has neither record nor row.
C11_Witness ==
    /\ RowsDone
    /\ Len(annotations) = 2
    /\ annotations[1].annotation_type = "4"
    /\ stdout # <<>>
    /\ 2 \in ValidLayers3
    /\ Len(annotations[2].region) = 1
    /\ annotations[2].region[1].image_location = Some(<<>>)
    /\ annotations[2].region[1].attributes # None
    /\ ~Creates(2, 1)
    /\ annotations[2].region[1].id \notin DOMAIN regions_info
    /\ RowsOf(annotations[2].region[1].id) = {}

=============================================================================
